---- MODULE Spec2Model ----
(***************************************************************************)
(* PomodoroBlocker (FocusX): the work/break session timer, the input and   *)
(* audio enforcement operations, and the night-time monitor.               *)
(*                                                                         *)
(* The foreground (Tk main loop) thread runs start_timer, stop_timer and   *)
(* the callbacks queued with root.after; every start_timer spawns a timer  *)
(* thread running _run_timer; the monitor thread polls is_night_time.      *)
(* Every step of a thread reads or writes at most one shared attribute, so *)
(* the interleavings of the model are those of the Python threads.         *)
(*                                                                         *)
(* Listeners (pynput) are threads: a listener object is "new" when         *)
(* constructed, "running" after start(), "stopped" after stop(); stop() of *)
(* a listener that never ran does nothing and start() of a listener that   *)
(* was started before raises RuntimeError.                                 *)
(***************************************************************************)
EXTENDS Integers, Sequences, FiniteSets, TLC

\* ------------------------------------------------------------------ bounds
MaxDur == 2
MaxThreads == 2
MaxTicks == 4
MaxLeak == 1
MaxQueue == 2
MaxOffset == 1

Threads == 1..MaxThreads
Durations == 1..MaxDur

VARIABLES
  work_duration, rest_duration, audio, fails,
  is_running, is_work_session,
  blocking, mouse_listener, keyboard_listener, leaked, muted,
  overlay, time_var, status_var,
  tpc, duration, tmp, lastPhase,
  fgpc, mainloop,
  night_overlay, hour, q, nightBlocks, dayUnblocks, scheduled,
  stopped, session, elapsed, latest,
  clock, time_offset, syncpc, server, outcomes, before, synced

cfgv   == <<work_duration, rest_duration, audio, fails>>
sessv  == <<is_running, is_work_session>>
enfv   == <<blocking, mouse_listener, keyboard_listener, leaked, muted>>
uiv    == <<overlay, time_var, status_var>>
thrv   == <<tpc, duration, tmp, lastPhase>>
nightv == <<night_overlay, hour, q, nightBlocks, dayUnblocks, scheduled>>
histv  == <<stopped, session, elapsed, latest>>
syncv  == <<clock, time_offset, syncpc, server, outcomes, before, synced>>
vars   == <<cfgv, sessv, enfv, uiv, thrv, fgpc, mainloop, nightv, histv, syncv>>

Min(a, b) == IF a < b THEN a ELSE b

\* ------------------------------------------------------- display formatting
\* f"{minutes:02d}:{seconds:02d}" of divmod(duration, 60), as <<minutes, seconds>>.
FormatTime(d) == <<d \div 60, d % 60>>

\* The literal "120:00" of setup_ui and cleanup.
ReadyMinutes == 120
ReadyTime == <<ReadyMinutes, 0>>

\* ------------------------------------------------ enforcement: single steps
\* self.blocking = v
SetBlocking(v) ==
  /\ blocking' = v
  /\ UNCHANGED <<mouse_listener, keyboard_listener, leaked, muted>>

\* self.mouse_listener = MouseListener(...): the listener referenced before is
\* dropped; if it is running it keeps running with no reference left to stop it.
NewMouseListener ==
  /\ mouse_listener' = "new"
  /\ leaked' = IF mouse_listener = "running" THEN Min(leaked + 1, MaxLeak) ELSE leaked
  /\ UNCHANGED <<blocking, keyboard_listener, muted>>

\* self.keyboard_listener = KeyboardListener(...)
NewKeyboardListener ==
  /\ keyboard_listener' = "new"
  /\ leaked' = IF keyboard_listener = "running" THEN Min(leaked + 1, MaxLeak) ELSE leaked
  /\ UNCHANGED <<blocking, mouse_listener, muted>>

\* listener.start() returns: the listener was not started before and the
\* platform starts its thread. block_input has no try/except, so otherwise
\* the exception leaves block_input.
StartReturns(listener) == listener = "new" /\ fails # "block"

\* self.mouse_listener.start(): the listener runs if it was not started
\* before and the platform starts its thread.
StartMouseListener ==
  /\ mouse_listener' = IF mouse_listener = "new" /\ fails # "block"
                         THEN "running" ELSE mouse_listener
  /\ UNCHANGED <<blocking, keyboard_listener, leaked, muted>>

\* self.keyboard_listener.start()
StartKeyboardListener ==
  /\ keyboard_listener' = IF keyboard_listener = "new" /\ fails # "block"
                            THEN "running" ELSE keyboard_listener
  /\ UNCHANGED <<blocking, mouse_listener, leaked, muted>>

\* if self.mouse_listener: self.mouse_listener.stop()
StopMouseListener ==
  /\ mouse_listener' = IF mouse_listener = "running" THEN "stopped" ELSE mouse_listener
  /\ UNCHANGED <<blocking, keyboard_listener, leaked, muted>>

\* if self.keyboard_listener: self.keyboard_listener.stop()
StopKeyboardListener ==
  /\ keyboard_listener' = IF keyboard_listener = "running" THEN "stopped" ELSE keyboard_listener
  /\ UNCHANGED <<blocking, mouse_listener, leaked, muted>>

\* The platform call that fails for the whole run (fails), if any: SetMute(1)
\* of mute_audio, SetMute(0) of unmute_audio, or the start() of a listener
\* thread in block_input.
Faults == {"none", "mute", "unmute", "block"}

\* mute_audio: if self.audio: try: self.audio.SetMute(1, None); except: print
MuteAudio ==
  /\ muted' = IF audio /\ fails # "mute" THEN TRUE ELSE muted
  /\ UNCHANGED <<blocking, mouse_listener, keyboard_listener, leaked>>

\* unmute_audio: if self.audio: try: self.audio.SetMute(0, None); except: print
UnmuteAudio ==
  /\ muted' = IF audio /\ fails # "unmute" THEN FALSE ELSE muted
  /\ UNCHANGED <<blocking, mouse_listener, keyboard_listener, leaked>>

\* The number of input listeners that are running, referenced or not.
RunningListeners ==
  leaked + (IF mouse_listener = "running" THEN 1 ELSE 0)
         + (IF keyboard_listener = "running" THEN 1 ELSE 0)


\* ------------------------------------------------------------ timer thread
Alive(t) == tpc[t] \notin {"unborn", "done", "crashed"}

Goto(t, p) == tpc' = [tpc EXCEPT ![t] = p]

\* _run_timer: while self.is_running
RunTimerLoop(t) ==
  /\ tpc[t] = "loop"
  /\ Goto(t, IF is_running THEN "branch" ELSE "done")
  /\ UNCHANGED <<cfgv, mainloop, syncv, sessv, enfv, uiv, duration, tmp, lastPhase, fgpc, nightv, histv>>

\* _run_timer: if self.is_work_session
RunTimerBranch(t) ==
  /\ tpc[t] = "branch"
  /\ Goto(t, IF is_work_session THEN "w_status" ELSE "b_status")
  /\ lastPhase' = [lastPhase EXCEPT ![t] = IF is_work_session THEN "work" ELSE "break"]
  /\ UNCHANGED <<cfgv, mainloop, syncv, sessv, enfv, uiv, duration, tmp, fgpc, nightv, histv>>

\* Work entry: self.status_var.set("Work Session")
WorkStatus(t) ==
  /\ tpc[t] = "w_status"
  /\ status_var' = "Work Session"
  /\ Goto(t, "w_unblock")
  /\ UNCHANGED <<cfgv, mainloop, syncv, sessv, enfv, overlay, time_var, duration, tmp, lastPhase, fgpc, nightv, histv>>

\* Work entry: self.unblock_input(), statement by statement
WorkUnblock(t) ==
  /\ tpc[t] \in {"w_unblock", "w_ub_mouse", "w_ub_kb"}
  /\ \/ tpc[t] = "w_unblock" /\ SetBlocking(FALSE) /\ Goto(t, "w_ub_mouse")
     \/ tpc[t] = "w_ub_mouse" /\ StopMouseListener /\ Goto(t, "w_ub_kb")
     \/ tpc[t] = "w_ub_kb" /\ StopKeyboardListener /\ Goto(t, "w_unmute")
  /\ UNCHANGED <<cfgv, mainloop, syncv, sessv, uiv, duration, tmp, lastPhase, fgpc, nightv, histv>>

\* Work entry: self.unmute_audio()
WorkUnmute(t) ==
  /\ tpc[t] = "w_unmute"
  /\ UnmuteAudio
  /\ Goto(t, "w_overlay")
  /\ UNCHANGED <<cfgv, mainloop, syncv, sessv, uiv, duration, tmp, lastPhase, fgpc, nightv, histv>>

\* Work entry: if self.overlay: self.overlay.destroy(), then
\* countdown(self.work_duration) is entered. The attribute keeps referring to
\* the destroyed window.
WorkOverlay(t) ==
  /\ tpc[t] = "w_overlay"
  /\ overlay' = IF overlay = "none" THEN "none" ELSE "destroyed"
  /\ duration' = [duration EXCEPT ![t] = work_duration]
  /\ Goto(t, "cd_test")
  /\ UNCHANGED <<cfgv, mainloop, syncv, sessv, enfv, time_var, status_var, tmp, lastPhase, fgpc, nightv, histv>>

\* Break entry: self.status_var.set("Break Time")
BreakStatus(t) ==
  /\ tpc[t] = "b_status"
  /\ status_var' = "Break Time"
  /\ Goto(t, "b_overlay")
  /\ UNCHANGED <<cfgv, mainloop, syncv, sessv, enfv, overlay, time_var, duration, tmp, lastPhase, fgpc, nightv, histv>>

\* Break entry: self.create_overlay()
BreakOverlay(t) ==
  /\ tpc[t] = "b_overlay"
  /\ overlay' = "shown"
  /\ Goto(t, "b_block")
  /\ UNCHANGED <<cfgv, mainloop, syncv, sessv, enfv, time_var, status_var, duration, tmp, lastPhase, fgpc, nightv, histv>>

\* Break entry: self.block_input(), statement by statement. start() of a
\* listener another thread already started raises RuntimeError, and so does
\* a start() the platform fails; the exception ends the timer thread.
BreakBlock(t) ==
  /\ tpc[t] \in {"b_block", "b_bl_mnew", "b_bl_knew", "b_bl_mstart", "b_bl_kstart"}
  /\ \/ tpc[t] = "b_block" /\ SetBlocking(TRUE) /\ Goto(t, "b_bl_mnew")
     \/ tpc[t] = "b_bl_mnew" /\ NewMouseListener /\ Goto(t, "b_bl_knew")
     \/ tpc[t] = "b_bl_knew" /\ NewKeyboardListener /\ Goto(t, "b_bl_mstart")
     \/ tpc[t] = "b_bl_mstart" /\
          /\ StartMouseListener
          /\ Goto(t, IF StartReturns(mouse_listener) THEN "b_bl_kstart" ELSE "crashed")
     \/ tpc[t] = "b_bl_kstart" /\
          /\ StartKeyboardListener
          /\ Goto(t, IF StartReturns(keyboard_listener) THEN "b_mute" ELSE "crashed")
  /\ UNCHANGED <<cfgv, mainloop, syncv, sessv, uiv, duration, tmp, lastPhase, fgpc, nightv, histv>>

\* Break entry: self.mute_audio(), then countdown(self.rest_duration) is entered
BreakMute(t) ==
  /\ tpc[t] = "b_mute"
  /\ MuteAudio
  /\ duration' = [duration EXCEPT ![t] = rest_duration]
  /\ Goto(t, "cd_test")
  /\ UNCHANGED <<cfgv, mainloop, syncv, sessv, uiv, tmp, lastPhase, fgpc, nightv, histv>>

\* The loop condition written duration >= 0: one tick too many per phase.
CountdownContinuesInclusive(t) == duration[t] >= 0 /\ is_running

\* The loop condition without the test of is_running: while duration > 0.
CountdownIgnoresStop(t) == duration[t] > 0

\* countdown: while duration > 0 and self.is_running
CountdownContinues(t) == duration[t] > 0 /\ is_running

CountdownTest(t) ==
  /\ tpc[t] = "cd_test"
  /\ Goto(t, IF CountdownContinues(t) THEN "cd_set" ELSE "toggle_test")
  /\ UNCHANGED <<cfgv, mainloop, syncv, sessv, enfv, uiv, duration, tmp, lastPhase, fgpc, nightv, histv>>

\* countdown: self.time_var.set(f"{minutes:02d}:{seconds:02d}")
CountdownSet(t) ==
  /\ tpc[t] = "cd_set"
  /\ time_var' = FormatTime(duration[t])
  /\ Goto(t, "cd_sleep")
  /\ UNCHANGED <<cfgv, mainloop, syncv, sessv, enfv, overlay, status_var, duration, tmp, lastPhase, fgpc, nightv, histv>>

\* countdown: time.sleep(1); duration -= 1
AfterTick(d) == d - 1

CountdownSleep(t) ==
  /\ tpc[t] = "cd_sleep"
  /\ duration' = [duration EXCEPT ![t] = AfterTick(duration[t])]
  /\ elapsed' = IF session = "single" THEN Min(elapsed + 1, MaxTicks) ELSE elapsed
  /\ Goto(t, "cd_test")
  /\ UNCHANGED <<cfgv, mainloop, syncv, sessv, enfv, uiv, tmp, lastPhase, fgpc, nightv, stopped, session, latest>>

\* _run_timer: if self.is_running (before the toggle)
ToggleTest(t) ==
  /\ tpc[t] = "toggle_test"
  /\ Goto(t, IF is_running THEN "toggle_read" ELSE "loop")
  /\ UNCHANGED <<cfgv, mainloop, syncv, sessv, enfv, uiv, duration, tmp, lastPhase, fgpc, nightv, histv>>

\* _run_timer: self.is_work_session = not self.is_work_session, the read
ToggleRead(t) ==
  /\ tpc[t] = "toggle_read"
  /\ tmp' = [tmp EXCEPT ![t] = is_work_session]
  /\ Goto(t, "toggle_write")
  /\ UNCHANGED <<cfgv, mainloop, syncv, sessv, enfv, uiv, duration, lastPhase, fgpc, nightv, histv>>

\* The toggle written without the not: the phase never changes.
ToggledStuck(v) == v

\* _run_timer: self.is_work_session = not self.is_work_session, the write
Toggled(v) == ~v

ToggleWrite(t) ==
  /\ tpc[t] = "toggle_write"
  /\ is_work_session' = Toggled(tmp[t])
  /\ tmp' = [tmp EXCEPT ![t] = FALSE]
  /\ Goto(t, "loop")
  /\ UNCHANGED <<cfgv, mainloop, syncv, is_running, enfv, uiv, duration, lastPhase, fgpc, nightv, histv>>

TimerStep(t) ==
  \/ RunTimerLoop(t)
  \/ RunTimerBranch(t)
  \/ WorkStatus(t)
  \/ WorkUnblock(t)
  \/ WorkUnmute(t)
  \/ WorkOverlay(t)
  \/ BreakStatus(t)
  \/ BreakOverlay(t)
  \/ BreakBlock(t)
  \/ BreakMute(t)
  \/ CountdownTest(t)
  \/ CountdownSet(t)
  \/ CountdownSleep(t)
  \/ ToggleTest(t)
  \/ ToggleRead(t)
  \/ ToggleWrite(t)


\* ------------------------------------------------------- foreground thread
\* The lowest of the thread slots S that holds no live thread.
FreeSlot(S) == CHOOSE t \in S : ~Alive(t) /\ \A u \in S : ~Alive(u) => t <= u

\* start_timer, statement by statement: is_running = True; is_work_session =
\* True; threading.Thread(target=self._run_timer).start(). The timer threads
\* of the run live in the slots S.
StartTimerIn(S) ==
  /\ \/ /\ fgpc = "idle"
        /\ \E t \in S : ~Alive(t)
        /\ is_running' = TRUE
        /\ stopped' = FALSE
        /\ session' = IF session = "none" THEN "single" ELSE "disturbed"
        /\ elapsed' = 0
        /\ fgpc' = "st_work"
        /\ UNCHANGED <<is_work_session, thrv, latest>>
     \/ /\ fgpc = "st_work"
        /\ is_work_session' = TRUE
        /\ fgpc' = "st_thread"
        /\ UNCHANGED <<is_running, thrv, histv>>
     \/ /\ fgpc = "st_thread"
        /\ tpc' = [tpc EXCEPT ![FreeSlot(S)] = "loop"]
        /\ duration' = [duration EXCEPT ![FreeSlot(S)] = 0]
        /\ tmp' = [tmp EXCEPT ![FreeSlot(S)] = FALSE]
        /\ lastPhase' = [lastPhase EXCEPT ![FreeSlot(S)] = "none"]
        /\ latest' = FreeSlot(S)
        /\ fgpc' = "idle"
        /\ UNCHANGED <<sessv, stopped, session, elapsed>>
  /\ UNCHANGED <<cfgv, mainloop, syncv, enfv, uiv, nightv>>

\* stop_timer: self.is_running = False (cleanup follows)
StopTimer ==
  /\ fgpc = "idle"
  /\ is_running' = FALSE
  /\ stopped' = TRUE
  /\ session' = IF session = "none" THEN "none" ELSE "disturbed"
  /\ elapsed' = 0
  /\ fgpc' = "cl_overlay"
  /\ UNCHANGED <<cfgv, mainloop, syncv, is_work_session, enfv, uiv, thrv, nightv, latest>>

\* cleanup, statement by statement
Cleanup ==
  /\ fgpc \in {"cl_overlay", "cl_unblock", "cl_ub_mouse", "cl_ub_kb", "cl_unmute",
               "cl_time", "cl_status", "cl_work"}
  /\ \/ /\ fgpc = "cl_overlay"
        /\ overlay' = IF overlay = "none" THEN "none" ELSE "destroyed"
        /\ fgpc' = "cl_unblock"
        /\ UNCHANGED <<enfv, time_var, status_var, is_work_session>>
     \/ /\ fgpc = "cl_unblock"
        /\ SetBlocking(FALSE)
        /\ fgpc' = "cl_ub_mouse"
        /\ UNCHANGED <<uiv, is_work_session>>
     \/ /\ fgpc = "cl_ub_mouse"
        /\ StopMouseListener
        /\ fgpc' = "cl_ub_kb"
        /\ UNCHANGED <<uiv, is_work_session>>
     \/ /\ fgpc = "cl_ub_kb"
        /\ StopKeyboardListener
        /\ fgpc' = "cl_unmute"
        /\ UNCHANGED <<uiv, is_work_session>>
     \/ /\ fgpc = "cl_unmute"
        /\ UnmuteAudio
        /\ fgpc' = "cl_time"
        /\ UNCHANGED <<uiv, is_work_session>>
     \/ /\ fgpc = "cl_time"
        /\ time_var' = ReadyTime
        /\ fgpc' = "cl_status"
        /\ UNCHANGED <<enfv, overlay, status_var, is_work_session>>
     \/ /\ fgpc = "cl_status"
        /\ status_var' = "Ready to focus"
        /\ fgpc' = "cl_work"
        /\ UNCHANGED <<enfv, overlay, time_var, is_work_session>>
     \/ /\ fgpc = "cl_work"
        /\ is_work_session' = TRUE
        /\ fgpc' = "idle"
        /\ UNCHANGED <<enfv, uiv>>
  /\ UNCHANGED <<cfgv, mainloop, syncv, is_running, thrv, nightv, histv>>

\* ---------------------------------------------------------- night monitor
\* The window with its end included: 0 <= current_time.hour <= 6.
IsNightHourInclusive(h) == 0 <= h /\ h <= 6

\* is_night_time: 0 <= current_time.hour < 6
IsNightHour(h) == 0 <= h /\ h < 6

is_night_time == IsNightHour(hour)

\* The local hour of get_accurate_time() moves on. The clock is observed at
\* the hours around the two ends of the night window: 23, 0, 5, 6, 23, ...
ClockHours == {0, 5, 6, 23}

NextHour(h) == IF h = 23 THEN 0 ELSE IF h = 0 THEN 5 ELSE IF h = 5 THEN 6 ELSE 23

\* The main loop never sleeps, so it lags the clock by less than a stay in
\* (or outside) the night window: the hour may reach an end of the window
\* while a root.after(0, ...) callback waits or a handler runs, but it moves
\* on from there only once the main loop is idle again. The counters of the
\* stay in the night window (resp. outside it) restart when the window is
\* entered (resp. left). time_offset is 0 here, so the hour is that of the
\* system clock.
ClockAdvance ==
  /\ IsNightHour(hour) = IsNightHour(NextHour(hour)) => q = <<>> /\ fgpc = "idle"
  /\ hour' = NextHour(hour)
  /\ clock' = NextHour(hour)
  /\ nightBlocks' = IF ~IsNightHour(hour) /\ IsNightHour(hour') THEN 0 ELSE nightBlocks
  /\ scheduled' = IF IsNightHour(hour) # IsNightHour(hour') THEN 0 ELSE scheduled
  /\ dayUnblocks' = IF IsNightHour(hour) /\ ~IsNightHour(hour') THEN 0 ELSE dayUnblocks
  /\ UNCHANGED <<cfgv, mainloop, sessv, enfv, uiv, thrv, fgpc, night_overlay, q, histv,
                 time_offset, syncpc, server, outcomes, before, synced>>

\* monitor_time, one iteration of the loop: root.after(0, create_night_overlay)
\* when it is night and there is no night overlay, root.after(0,
\* remove_night_overlay) when it is not night and there is one.
MonitorSchedules ==
  IF is_night_time
    THEN IF ~night_overlay THEN <<"create">> ELSE <<>>
    ELSE IF night_overlay THEN <<"remove">> ELSE <<>>

\* A monitor that also ends the session when it finds the night window:
\* self.is_running = False before the poll's root.after.
MonitorPollStopsSession ==
  /\ Len(q) + Len(MonitorSchedules) <= MaxQueue
  /\ q' = q \o MonitorSchedules
  /\ scheduled' = Min(scheduled + Len(MonitorSchedules), MaxQueue)
  /\ is_running' = IF is_night_time THEN FALSE ELSE is_running
  /\ UNCHANGED <<cfgv, mainloop, syncv, is_work_session, enfv, uiv, thrv, fgpc,
                 night_overlay, hour, nightBlocks, dayUnblocks, histv>>

MonitorPoll ==
  /\ Len(q) + Len(MonitorSchedules) <= MaxQueue
  /\ q' = q \o MonitorSchedules
  /\ scheduled' = Min(scheduled + Len(MonitorSchedules), MaxQueue)
  /\ UNCHANGED <<cfgv, mainloop, syncv, sessv, enfv, uiv, thrv, fgpc, night_overlay, hour, nightBlocks,
                 dayUnblocks, histv>>

\* create_night_overlay without its early return.
NightOverlayNeverExists == FALSE

\* create_night_overlay: if self.night_overlay: return
NightOverlayExists == night_overlay

\* create_night_overlay up to the call of block_input: nothing if the overlay
\* exists, else the overlay is created.

CreateNightOverlayEnter ==
  /\ IF NightOverlayExists
       THEN fgpc' = "idle" /\ UNCHANGED night_overlay
       ELSE fgpc' = "cn_block" /\ night_overlay' = TRUE
  /\ UNCHANGED <<cfgv, mainloop, syncv, sessv, enfv, uiv, thrv, hour, nightBlocks, dayUnblocks, scheduled,
                 histv>>

\* run without its check of the night window: self.root.mainloop() only.
RunWithoutCheck ==
  /\ fgpc = "run"
  /\ fgpc' = "idle" /\ mainloop' = TRUE
  /\ UNCHANGED <<cfgv, syncv, sessv, enfv, uiv, thrv, nightv, histv>>

\* run: if self.is_night_time(): self.create_night_overlay(), then
\* self.root.mainloop(). mainloop is true once root.mainloop() has been entered.
Run ==
  /\ fgpc = "run"
  /\ IF is_night_time
       THEN CreateNightOverlayEnter /\ UNCHANGED q
       ELSE fgpc' = "idle" /\ mainloop' = TRUE
            /\ UNCHANGED <<cfgv, syncv, sessv, enfv, uiv, thrv, nightv, histv>>

\* The main loop runs the next root.after callback.
CreateNightOverlay ==
  /\ fgpc = "idle"
  /\ q # <<>> /\ Head(q) = "create"
  /\ q' = Tail(q)
  /\ CreateNightOverlayEnter

\* Where an exception leaves the foreground: inside root.mainloop() Tk
\* reports it and the main loop goes on; in run, before root.mainloop(), it
\* ends the process.
Raised == IF mainloop THEN "idle" ELSE "exited"

\* create_night_overlay: self.block_input(), statement by statement. A
\* RuntimeError of start() ends the callback. When the call came from run,
\* root.mainloop() is entered after it.
NightBlock ==
  /\ fgpc \in {"cn_block", "cn_bl_mnew", "cn_bl_knew", "cn_bl_mstart", "cn_bl_kstart"}
  /\ \/ /\ fgpc = "cn_block"
        /\ SetBlocking(TRUE)
        /\ nightBlocks' = Min(nightBlocks + 1, 2)
        /\ fgpc' = "cn_bl_mnew"
     \/ /\ fgpc = "cn_bl_mnew"
        /\ NewMouseListener
        /\ fgpc' = "cn_bl_knew"
        /\ UNCHANGED nightBlocks
     \/ /\ fgpc = "cn_bl_knew"
        /\ NewKeyboardListener
        /\ fgpc' = "cn_bl_mstart"
        /\ UNCHANGED nightBlocks
     \/ /\ fgpc = "cn_bl_mstart"
        /\ StartMouseListener
        /\ fgpc' = IF StartReturns(mouse_listener) THEN "cn_bl_kstart" ELSE Raised
        /\ UNCHANGED nightBlocks
     \/ /\ fgpc = "cn_bl_kstart"
        /\ StartKeyboardListener
        /\ fgpc' = IF StartReturns(keyboard_listener) THEN "idle" ELSE Raised
        /\ UNCHANGED nightBlocks
  /\ mainloop' = (mainloop \/ fgpc' = "idle")
  /\ UNCHANGED <<cfgv, syncv, sessv, uiv, thrv, night_overlay, hour, q, dayUnblocks, scheduled,
                 histv>>

\* remove_night_overlay up to the call of unblock_input
RemoveNightOverlay ==
  /\ fgpc = "idle"
  /\ q # <<>> /\ Head(q) = "remove"
  /\ q' = Tail(q)
  /\ IF night_overlay
       THEN fgpc' = "rn_unblock" /\ night_overlay' = FALSE
       ELSE fgpc' = "idle" /\ UNCHANGED night_overlay
  /\ UNCHANGED <<cfgv, mainloop, syncv, sessv, enfv, uiv, thrv, hour, nightBlocks, dayUnblocks, scheduled,
                 histv>>

\* remove_night_overlay: self.unblock_input(), statement by statement
NightUnblock ==
  /\ fgpc \in {"rn_unblock", "rn_ub_mouse", "rn_ub_kb"}
  /\ \/ /\ fgpc = "rn_unblock"
        /\ SetBlocking(FALSE)
        /\ dayUnblocks' = Min(dayUnblocks + 1, 2)
        /\ fgpc' = "rn_ub_mouse"
     \/ /\ fgpc = "rn_ub_mouse"
        /\ StopMouseListener
        /\ fgpc' = "rn_ub_kb"
        /\ UNCHANGED dayUnblocks
     \/ /\ fgpc = "rn_ub_kb"
        /\ StopKeyboardListener
        /\ fgpc' = "idle"
        /\ UNCHANGED dayUnblocks
  /\ UNCHANGED <<cfgv, mainloop, syncv, sessv, uiv, thrv, night_overlay, hour, q, nightBlocks, scheduled,
                 histv>>

\* ------------------------------------------------------------- time source
\* self.ntp_servers: four servers, tried in list order.
NumServers == 4
Servers == 1..NumServers

\* response.offset of a request that succeeds, in hours.
Offsets == (0 - MaxOffset)..MaxOffset

\* The ways a request fails: no or a malformed answer (ntplib.NTPException),
\* name resolution (socket.gaierror), socket.timeout.
Failures == {"NTPException", "gaierror", "timeout"}

\* What a request to a server gives.
Responses ==
  [kind : {"ok"}, offset : Offsets] \cup [kind : Failures, offset : {0}]

\* The except clause without socket.timeout.
CaughtWithoutTimeout == {"NTPException", "gaierror"}

\* sync_time: except (ntplib.NTPException, socket.gaierror, socket.timeout)
Caught == {"NTPException", "gaierror", "timeout"}

\* sync_time with the return after a success left out: the loop goes on to
\* the next server.
NoReturnOnSuccess == FALSE

\* sync_time: return, after self.time_offset = response.offset
ReturnOnSuccess == TRUE

\* A loop that falls back to the system clock when the last server has
\* failed too: self.time_offset = 0 before the warning.
OffsetResetOnExhaustion == IF server = NumServers THEN 0 ELSE time_offset

\* sync_time: except ...: continue, which leaves self.time_offset alone
OffsetAfterFailure == time_offset

HoursPerDay == 24

\* get_accurate_time, its hour: datetime.now(tz), replaced by
\* fromtimestamp(time.time() + self.time_offset) if self.time_offset is not 0.
GetAccurateTime ==
  IF time_offset # 0 THEN (clock + time_offset + HoursPerDay) % HoursPerDay ELSE clock

\* sync_time is called (by __init__, then by periodic_sync every hour).
SyncTime ==
  /\ syncpc \in {"idle", "returned"}
  /\ syncpc' = "request" /\ server' = 1 /\ outcomes' = <<>> /\ before' = time_offset
  /\ UNCHANGED <<cfgv, mainloop, sessv, enfv, uiv, thrv, fgpc, nightv, histv,
                 clock, time_offset, synced>>

\* The place of sync_time after the request to the server at hand is done
\* with: the next server, or the end of the loop (the warning, then return).
NextServer == IF server < NumServers THEN "request" ELSE "returned"

\* sync_time, one iteration of the loop: the request to the server at hand.
SyncRequest ==
  /\ syncpc = "request"
  /\ \E r \in Responses :
       /\ outcomes' = Append(outcomes, r)
       /\ IF r.kind = "ok"
            THEN /\ time_offset' = r.offset
                 /\ synced' = TRUE
                 /\ syncpc' = IF ReturnOnSuccess THEN "returned" ELSE NextServer
            ELSE /\ time_offset' = OffsetAfterFailure
                 /\ synced' = synced
                 /\ syncpc' = IF r.kind \in Caught THEN NextServer ELSE "raised"
       /\ server' = IF syncpc' = "request" THEN server + 1 ELSE server
  /\ UNCHANGED <<cfgv, mainloop, sessv, enfv, uiv, thrv, fgpc, nightv, histv, clock, before>>

\* The system clock passes into the next hour.
Tick ==
  /\ clock' = (clock + 1) % HoursPerDay
  /\ UNCHANGED <<cfgv, mainloop, sessv, enfv, uiv, thrv, fgpc, nightv, histv,
                 time_offset, syncpc, server, outcomes, before, synced>>

\* is_night_time: current_time = self.get_accurate_time(); its hour is the
\* hour the night window is tested on. A call that reads the hour of the call
\* before changes nothing.
IsNightTimeCall ==
  /\ hour' = GetAccurateTime
  /\ hour' # hour
  /\ UNCHANGED <<cfgv, mainloop, syncv, sessv, enfv, uiv, thrv, fgpc, night_overlay, q,
                 nightBlocks, dayUnblocks, scheduled, histv>>

\* ----------------------------------------------------------- specifications
TypeOK ==
  /\ work_duration \in 0..MaxDur /\ rest_duration \in 0..MaxDur /\ audio \in BOOLEAN
  /\ is_running \in BOOLEAN /\ is_work_session \in BOOLEAN
  /\ blocking \in BOOLEAN /\ muted \in BOOLEAN
  /\ mouse_listener \in {"none", "new", "running", "stopped"}
  /\ keyboard_listener \in {"none", "new", "running", "stopped"}
  /\ leaked \in 0..MaxLeak
  /\ overlay \in {"none", "shown", "destroyed"}
  /\ status_var \in {"Ready to focus", "Work Session", "Break Time"}
  /\ \A t \in Threads : duration[t] \in 0..MaxDur
  /\ elapsed \in 0..MaxTicks
  /\ night_overlay \in BOOLEAN /\ hour \in 0..23 /\ Len(q) <= MaxQueue
  /\ mainloop \in BOOLEAN /\ (fgpc = "run" => ~mainloop)
  /\ fails \in Faults
  /\ clock \in 0..(HoursPerDay - 1) /\ time_offset \in Offsets
  /\ syncpc \in {"idle", "request", "returned", "raised"} /\ server \in Servers
  /\ Len(outcomes) <= NumServers /\ before \in Offsets /\ synced \in BOOLEAN

\* The state after __init__, for given durations, hour of the day and failing
\* platform call.
InitEnv(durations, audios, hours, pc, faults) ==
  /\ work_duration \in durations /\ rest_duration \in durations
  /\ audio \in audios /\ fails \in faults
  /\ is_running = FALSE /\ is_work_session = TRUE
  /\ blocking = FALSE /\ mouse_listener = "none" /\ keyboard_listener = "none"
  /\ leaked = 0 /\ muted = FALSE
  /\ overlay = "none" /\ time_var = ReadyTime /\ status_var = "Ready to focus"
  /\ tpc = [t \in Threads |-> "unborn"]
  /\ duration = [t \in Threads |-> 0]
  /\ tmp = [t \in Threads |-> FALSE]
  /\ lastPhase = [t \in Threads |-> "none"]
  /\ fgpc = pc /\ mainloop = (pc # "run")
  /\ night_overlay = FALSE /\ hour \in hours /\ q = <<>>
  /\ nightBlocks = 0 /\ dayUnblocks = 0 /\ scheduled = 0
  /\ stopped = FALSE /\ session = "none" /\ elapsed = 0 /\ latest = 0
  /\ clock = hour /\ time_offset = 0 /\ syncpc = "idle" /\ server = 1
  /\ outcomes = <<>> /\ before = 0 /\ synced = FALSE

\* The state after __init__ on a platform where no call fails.
InitWith(durations, audios, hours, pc) == InitEnv(durations, audios, hours, pc, {"none"})

\* FocusX-120min.py: the session timer with the night monitor.
Init == InitWith({1}, {TRUE}, ClockHours, "run")

Next ==
  \/ StartTimerIn({1})
  \/ StopTimer
  \/ Cleanup
  \/ \E t \in Threads : TimerStep(t)
  \/ ClockAdvance
  \/ MonitorPoll
  \/ Run
  \/ CreateNightOverlay
  \/ NightBlock
  \/ RemoveNightOverlay
  \/ NightUnblock

Spec == Init /\ [][Next]_vars

\* The session timer alone (the part FocusX-with-no-12AM-checker.py keeps), one
\* timer thread alive at a time.
InitSession == InitWith(Durations, BOOLEAN, {12}, "idle")

NextSession ==
  \/ StartTimerIn({1})
  \/ StopTimer
  \/ Cleanup
  \/ \E t \in Threads : TimerStep(t)

SpecSession == InitSession /\ [][NextSession]_vars

\* The session timer with every timer thread scheduled again and again, as
\* the interpreter does with a thread that is ready to run.
SpecSessionFair ==
  SpecSession /\ \A t \in Threads : WF_vars(TimerStep(t))

\* The session timer with start_timer pressed while timer threads are alive.
InitRestart == InitWith({1}, {TRUE}, {12}, "idle")

NextRestart ==
  \/ StartTimerIn(Threads)
  \/ StopTimer
  \/ Cleanup
  \/ \E t \in Threads : TimerStep(t)

SpecRestart == InitRestart /\ [][NextRestart]_vars

\* The session timer with durations that may be 0.
InitConfig == InitWith(0..MaxDur, {TRUE}, {12}, "idle")

SpecConfig == InitConfig /\ [][NextSession]_vars

\* The session timer on a platform where one of the calls fails.
InitFault == InitEnv({1}, BOOLEAN, {12}, "idle", Faults)

SpecFault == InitFault /\ [][NextSession]_vars

\* The time source: sync_time, the system clock and the readings of
\* is_night_time.
InitTime == InitWith({1}, {TRUE}, {12}, "idle")

NextTime ==
  \/ SyncTime
  \/ SyncRequest
  \/ Tick
  \/ IsNightTimeCall

SpecTime == InitTime /\ [][NextTime]_vars


\* ------------------------------------------------------------------ claims
\* The program points of the phase entry actions of _run_timer.
WorkEntryPcs == {"w_status", "w_unblock", "w_ub_mouse", "w_ub_kb", "w_unmute", "w_overlay"}
BreakEntryPcs == {"b_status", "b_overlay", "b_block", "b_bl_mnew", "b_bl_knew",
                  "b_bl_mstart", "b_bl_kstart", "b_mute"}
EntryPcs == WorkEntryPcs \cup BreakEntryPcs

\* Thread t executes a statement of a phase's entry actions.
EntryActionStep(t) == tpc[t] \in EntryPcs /\ tpc'[t] # tpc[t]

\* Thread t writes the toggled is_work_session.
ToggleStep(t) == tpc[t] = "toggle_write" /\ tpc'[t] # tpc[t]

\* stop_timer and its cleanup have run to the end, no start_timer came after,
\* and every timer thread has left _run_timer.
StopSettled == stopped /\ fgpc = "idle" /\ \A t \in Threads : ~Alive(t)

\* C1: once stop_timer has run and the timer thread has finished, the session
\* is idle, input is not blocked (the flag is off and no listener runs) and
\* audio is not muted.
C1_StopRestoresIdle ==
  StopSettled => ~is_running /\ ~blocking /\ RunningListeners = 0 /\ ~muted

\* C4: in a session of one start_timer and no stop_timer, the phases whose
\* entry actions the timer loop begins are Work, Break, Work, ...: the first is
\* Work and none is entered twice in a row.
C4_PhasesAlternate ==
  [][\A t \in Threads :
       (session = "single" /\ tpc[t] = "branch" /\ tpc'[t] # "branch")
         => /\ lastPhase'[t] # lastPhase[t]
            /\ lastPhase[t] = "none" => lastPhase'[t] = "work"]_vars

C4_Witness ==
  session = "single" /\ elapsed >= 2 /\ tpc[1] = "w_status" /\ lastPhase[1] = "work"

\* The phase and the remaining seconds k ticks after start_timer.
PhaseAt(k) ==
  LET r == k % (work_duration + rest_duration)
  IN IF r < work_duration
       THEN <<"work", work_duration - r>>
       ELSE <<"break", work_duration + rest_duration - r>>

\* C5: in a session of one start_timer and no stop_timer, with positive
\* durations, k ticks after the start the countdown is in the phase and at the
\* remaining value that phases of exactly work_duration and rest_duration
\* ticks give, the display shows that value, and the phase is left (the toggle
\* is reached) only with remaining = 0.
C5_CountdownExact ==
  (session = "single" /\ elapsed < MaxTicks /\ work_duration > 0 /\ rest_duration > 0)
    => \A t \in Threads :
         /\ tpc[t] \in {"cd_set", "cd_sleep"} => <<lastPhase[t], duration[t]>> = PhaseAt(elapsed)
         /\ tpc[t] = "cd_sleep" => time_var = FormatTime(duration[t])
         /\ tpc[t] \in {"toggle_test", "toggle_read", "toggle_write"} => duration[t] = 0

C5_Witness ==
  /\ session = "single" /\ work_duration = 2 /\ rest_duration = 1
  /\ elapsed = 3 /\ tpc[1] = "cd_sleep" /\ lastPhase[1] = "work" /\ duration[1] = 2

\* C8: once stop_timer has set is_running to false and no start_timer
\* followed, no timer thread toggles is_work_session or executes an entry
\* action of a phase.
C8_NoTransitionAfterStop ==
  [][stopped => \A t \in Threads : ~EntryActionStep(t) /\ ~ToggleStep(t)]_vars

\* C9: a timer thread that a later start_timer superseded makes no further
\* transition: it executes no entry action, writes no remaining time and
\* toggles no phase.
C9_OneLoopDrives ==
  [][\A t \in Threads :
       (Alive(t) /\ latest # 0 /\ t # latest)
         => ~EntryActionStep(t) /\ ~ToggleStep(t)
            /\ ~(tpc[t] = "cd_set" /\ tpc'[t] # tpc[t])]_vars

\* C10: with a work or break duration of 0 or less, start_timer starts
\* nothing: is_running stays false and no timer thread exists.
C10_ZeroDurationRejected ==
  (work_duration <= 0 \/ rest_duration <= 0)
    => ~is_running /\ \A t \in Threads : tpc[t] = "unborn"


\* No enforcement call of the session scheduler is under way: the main loop
\* is idle with no callback pending and no timer thread is inside the entry
\* actions of a phase.
CallsSettled == fgpc = "idle" /\ q = <<>> /\ \A t \in Threads : tpc[t] \notin EntryPcs

\* C2: while it is night and the night overlay exists, input is blocked
\* whenever the calls of the session scheduler have settled.
C2_NightPrecedence ==
  (is_night_time /\ night_overlay /\ CallsSettled) => blocking

\* Thread t counts down a break that no stop_timer interrupted.
InBreak(t) ==
  /\ tpc[t] \in {"cd_set", "cd_sleep"}
  /\ lastPhase[t] = "break"
  /\ ~stopped

\* C3: during the countdown of a break, input is blocked and audio (when
\* there is an audio endpoint) is muted.
C3_BreakEnforced ==
  \A t \in Threads : InBreak(t) => blocking /\ (audio => muted)

\* C6: during one stay in the night window the night path calls block_input
\* at most once, during one stay outside it unblock_input at most once,
\* however many polls and queued callbacks there are; and once the callbacks
\* the monitor scheduled in the stay have run, exactly once.
C6_NightEdgeTriggered ==
  /\ nightBlocks <= 1
  /\ dayUnblocks <= 1
  /\ (scheduled >= 1 /\ q = <<>> /\ fgpc \notin {"cn_block", "rn_unblock"})
       => IF is_night_time THEN nightBlocks = 1 ELSE dayUnblocks = 1

C6_Witness ==
  is_night_time /\ scheduled >= 2 /\ q = <<>> /\ fgpc = "idle" /\ nightBlocks = 1

\* No thread is inside block_input or unblock_input.
InputCallsIdle ==
  /\ fgpc \notin {"cl_unblock", "cl_ub_mouse", "cl_ub_kb", "cn_block", "cn_bl_mnew",
                  "cn_bl_knew", "cn_bl_mstart", "cn_bl_kstart", "rn_unblock",
                  "rn_ub_mouse", "rn_ub_kb"}
  /\ \A t \in Threads :
       tpc[t] \notin {"w_unblock", "w_ub_mouse", "w_ub_kb", "b_block", "b_bl_mnew",
                      "b_bl_knew", "b_bl_mstart", "b_bl_kstart"}

\* C7: block_input called again leaves the running listeners those that one
\* unblock_input stops: once the calls have returned, no running listener is
\* left without a reference.
C7_BlockIdempotent == InputCallsIdle => leaked = 0

\* The foreground is inside the block_input that run's create_night_overlay
\* called, past its first statement.
StartupBlockPcs == {"cn_bl_mnew", "cn_bl_knew", "cn_bl_mstart", "cn_bl_kstart"}

\* C11: when run finds the night window it goes straight into
\* create_night_overlay and block_input, with no callback and no poll in
\* between; when root.mainloop() is then entered input is blocked, both
\* listeners run and block_input has been called once; and the
\* create_night_overlay the monitor's first iteration queued in the meantime
\* blocks nothing again (no second block_input in the stay).
C11_StartupBlocksOnce ==
  /\ [][/\ (fgpc = "run" /\ fgpc' # "run" /\ is_night_time)
            => ~mainloop' /\ night_overlay' /\ fgpc' = "cn_block" /\ q' = q
        /\ (~mainloop /\ fgpc \in StartupBlockPcs) => nightBlocks = 1 /\ blocking
        /\ (~mainloop /\ mainloop' /\ fgpc # "run")
            => /\ blocking' /\ nightBlocks' = 1
               /\ mouse_listener' = "running" /\ keyboard_listener' = "running"
        /\ (mainloop /\ fgpc = "idle" /\ q # q' /\ Len(q') < Len(q)
              /\ Head(q) = "create" /\ night_overlay)
            => fgpc' = "idle" /\ UNCHANGED <<enfv, nightBlocks>>]_vars
  /\ [](nightBlocks <= 1)

\* run found the night window and is about to start the second listener,
\* while the monitor's first iteration has queued create_night_overlay.
C11_Witness ==
  ~mainloop /\ fgpc = "cn_bl_kstart" /\ q = <<"create">> /\ nightBlocks = 1

\* C12: a platform call that fails inside block_input, unblock_input,
\* mute_audio or unmute_audio is caught there, so no timer thread is ended by
\* an exception: the loop goes on to the countdown and the next phase.
C12_FailureCaught == \A t \in Threads : tpc[t] # "crashed"

\* Every server of the list was asked in the call at hand and every request
\* failed.
AllFailed ==
  /\ Len(outcomes) = NumServers
  /\ \A i \in 1..Len(outcomes) : outcomes[i].kind \in Failures

\* C13: sync_time never raises on a failing request, and when all servers
\* have failed and no sync has succeeded since __init__, it has returned with
\* time_offset 0, so that get_accurate_time gives the system clock's time.
C13_DegradesToLocalClock ==
  /\ syncpc # "raised"
  /\ (syncpc = "returned" /\ AllFailed /\ ~synced)
       => time_offset = 0 /\ GetAccurateTime = clock

C13_Witness == syncpc = "returned" /\ AllFailed /\ ~synced /\ clock # 12

\* C14: a sync_time call in which all servers failed has left time_offset as
\* it was when the call began, and time_offset changes only in a step that
\* receives a successful response, to the offset of that response.
C14_FailureKeepsOffset ==
  /\ [](syncpc = "returned" /\ AllFailed => time_offset = before)
  /\ [][time_offset' # time_offset
          => /\ syncpc = "request"
             /\ outcomes'[Len(outcomes')].kind = "ok"
             /\ time_offset' = outcomes'[Len(outcomes')].offset]_vars

\* A call in which all servers failed, after a sync that had set an offset.
C14_Witness == syncpc = "returned" /\ AllFailed /\ synced /\ time_offset # 0

\* C15: the servers are asked in list order, each after the failure of all
\* before it; with the first success the call ends, time_offset is the offset
\* of that answer and no later server is asked; the call ends without a
\* success only when all servers have been asked.
C15_FirstResponderWins ==
  /\ syncpc = "request"
       => /\ server = Len(outcomes) + 1
          /\ \A i \in 1..Len(outcomes) : outcomes[i].kind \in Failures
  /\ syncpc = "returned"
       => /\ \A i \in 1..(Len(outcomes) - 1) : outcomes[i].kind \in Failures
          /\ server = Len(outcomes)
          /\ IF outcomes[Len(outcomes)].kind = "ok"
               THEN time_offset = outcomes[Len(outcomes)].offset
               ELSE Len(outcomes) = NumServers

\* The first server failed, the second answered, with an offset that differs
\* from the one held before.
C15_Witness ==
  /\ syncpc = "returned" /\ Len(outcomes) = 2 /\ outcomes[2].kind = "ok"
  /\ time_offset # before

\* C16: is_night_time is true exactly at the hours 0, 1, 2, 3, 4 and 5 of the
\* accurate time, among the hours 0..23: true at 0 and 3, false at 6.
C16_NightWindow ==
  /\ hour \in 0..(HoursPerDay - 1)
  /\ is_night_time <=> hour \in {0, 1, 2, 3, 4, 5}
  /\ hour = 3 => is_night_time
  /\ hour = 6 => ~is_night_time
  /\ hour = 0 => is_night_time

\* is_night_time was called at hour 6 of the accurate time, which the offset
\* makes differ from the hour of the system clock.
C16_Witness == hour = 6 /\ ~is_night_time /\ time_offset # 0 /\ clock # 6

\* Timer thread t has executed the first statement of block_input or
\* unblock_input and not yet the last.
TimerInsideCall(t) ==
  tpc[t] \in {"w_ub_mouse", "w_ub_kb", "b_bl_mnew", "b_bl_knew", "b_bl_mstart", "b_bl_kstart"}

\* The foreground thread has executed the first statement of block_input or
\* unblock_input (called by cleanup, create_night_overlay or
\* remove_night_overlay) and not yet the last.
ForegroundInsideCall ==
  fgpc \in {"cl_ub_mouse", "cl_ub_kb", "cn_bl_mnew", "cn_bl_knew", "cn_bl_mstart",
            "cn_bl_kstart", "rn_ub_mouse", "rn_ub_kb"}

\* C17: the calls of the enforcement operations are serialized: no timer
\* thread is inside one while the foreground thread is inside another.
C17_CallsSerialized ==
  \A t \in Threads : ~(TimerInsideCall(t) /\ ForegroundInsideCall)

\* C18: once stop_timer and its cleanup have run, and until the next
\* start_timer, the display shows the ready time (the work duration as MM:SS)
\* and the ready status and the phase flag is Work, whatever the timer thread
\* still does.
C18_DisplayResetAfterStop ==
  (stopped /\ fgpc = "idle")
    => time_var = ReadyTime /\ status_var = "Ready to focus" /\ is_work_session

\* C19: once stop_timer has set is_running to false, and unless start_timer
\* is called again, every timer thread ends; and it does so within one tick:
\* it begins no further tick of a countdown and no further round of the loop.
C19_StopTerminates ==
  /\ stopped ~> (~stopped \/ \A t \in Threads : ~Alive(t))
  /\ [][stopped => \A t \in Threads :
                     /\ ~(tpc[t] = "cd_test" /\ tpc'[t] = "cd_set")
                     /\ ~(tpc[t] = "loop" /\ tpc'[t] = "branch")]_vars

\* stop_timer came during the countdown of a break and the timer thread has
\* ended.
C19_Witness ==
  stopped /\ fgpc = "idle" /\ tpc[1] = "done" /\ lastPhase[1] = "break" /\ duration[1] > 0

\* C20: whenever no thread is inside block_input or unblock_input, the
\* blocking flag is on if and only if an input listener is running.
C20_BlockingIffListening ==
  InputCallsIdle => (blocking <=> RunningListeners > 0)

\* The program points of the foreground inside create_night_overlay and
\* remove_night_overlay.
NightPcs ==
  {"cn_block", "cn_bl_mnew", "cn_bl_knew", "cn_bl_mstart", "cn_bl_kstart",
   "rn_unblock", "rn_ub_mouse", "rn_ub_kb"}

\* The step is one of the night path: the monitor queues a callback, run makes
\* its check, or the foreground enters, executes or leaves
\* create_night_overlay or remove_night_overlay.
NightPathStep ==
  \/ q' # q
  \/ night_overlay' # night_overlay
  \/ fgpc = "run" /\ fgpc' # "run"
  \/ fgpc' # fgpc /\ (fgpc \in NightPcs \/ fgpc' \in NightPcs)

\* C21: a step of the night path leaves the audio mute state, is_running,
\* is_work_session and the countdown (the remaining time, its display and the
\* place of every timer thread) as they are, and the session's status,
\* overlay and configuration too.
C21_NightPathFrame ==
  [][NightPathStep
       => UNCHANGED <<muted, is_running, is_work_session, duration, time_var, tpc, tmp,
                      lastPhase, status_var, overlay, cfgv>>]_vars

\* The night window began during the countdown of a break: the night path has
\* blocked input while the session runs with audio muted.
C21_Witness ==
  /\ night_overlay /\ nightBlocks = 1 /\ fgpc = "idle" /\ q = <<>>
  /\ is_running /\ muted /\ lastPhase[1] = "break" /\ tpc[1] = "cd_sleep"

====
